---- MODULE Spec2Model ----
(***************************************************************************)
(* State-machine model of the proxy dispatch fabric of flower:             *)
(*   - the QUIC outbound connection pool (Manager::new_stream),            *)
(*     src/flower/src/proxy/quic/outbound/tcp.rs                           *)
(*   - the QUIC inbound accept pipeline (Incoming::poll_next),             *)
(*     src/flower/src/proxy/quic/inbound/udp.rs                            *)
(*   - the TCP relay (copy_tcp, relay_tcp),                                *)
(*     src/flower/src/proxy/trojan/inbound/mod.rs                          *)
(*   - the construction and handle of the drop, TLS and QUIC handlers,     *)
(*     src/flower/src/proxy/drop/tcp.rs, tls/inbound/tcp.rs,               *)
(*     tls/outbound/tcp.rs, quic/inbound/udp.rs, quic/outbound/tcp.rs      *)
(***************************************************************************)
EXTENDS Integers, Sequences, FiniteSets, TLC

(***************************************************************************)
(* Program constants and model bounds                                      *)
(***************************************************************************)
\* `if conn.total_accepted < 128` (outbound/tcp.rs:105)
STREAM_CAP == 128

\* number of tasks that call new_stream concurrently
NumCallers == 2
\* number of new_stream calls started in a concurrent run
MaxCalls == 3
\* number of new_stream calls started in a run with fair scheduling
MaxFairCalls == 2
\* number of new_stream calls started in a sequential run
MaxSeqCalls == 130

Procs == 1..NumCallers

\* `let mut buf = [0u8; 0x4000]` (trojan/inbound/mod.rs:13)
BUF_LEN == 16384

\* connection attempts that reach the QUIC server endpoint
MaxConns == 2
\* streams a connection buffers before the producer accepts them
MaxReady == 2
\* bytes each peer of a relayed session sends
MaxBytes == 3

Conns == 1..MaxConns

\* certificates a certificate file holds at most
MaxCerts == 1
\* PEM sections a key file holds at most
MaxKeys == 2

VARIABLES
    pool,       \* Manager.connections: Vec<Connection>, in Vec order
    mutex,      \* holder of the tokio Mutex around the Vec (0: free)
    pc,         \* pc[p]: where caller p stands inside new_stream
    idx,        \* idx[p]: position of p's iter_mut() cursor (0: no cursor)
    ret,        \* ret[p]: result of p's latest finished call
    calls,      \* new_stream calls started so far
    streams,    \* QuicProxyStream values returned so far
    swept,      \* connections the latest retain() removed
    dialed,     \* dialed[p]: p's current call went past its loop, to the dial
    lone,       \* lone[p]: 1 while p is in a call whose open_bi failed on the
                \* only pooled connection, 2 during p's call after that one
    ips,        \* ips[p]: the addresses p's DNS lookup returned
    target      \* target[p]: connect_addr of p's connect

poolVars == <<pool, mutex, pc, idx, ret, calls, streams, swept, dialed, lone,
              ips, target>>

VARIABLES
    innerQ,          \* quinn::Incoming: handshakes the endpoint has queued
    innerClosed,     \* quinn::Incoming: the endpoint has closed its queue
    hs,              \* hs[c]: state of the quinn::Connecting future of c
    bi,              \* bi[c]: state of c's bi_streams (IncomingBiStreams)
    arrived,         \* connection attempts the endpoint has seen
    connectings,     \* Incoming.connectings
    new_conns,       \* Incoming.new_conns
    incoming_closed, \* Incoming.incoming_closed
    polled,          \* what the latest poll_next returned
    tick             \* flips at every poll_next

incVars == <<innerQ, innerClosed, hs, bi, arrived, connectings, new_conns,
             incoming_closed, polled, tick>>

VARIABLES
    rpc,        \* where relay_tcp stands
    cpc,        \* cpc[d]: where the copy_tcp of direction d stands
    src,        \* src[d]: bytes the reader of d will still deliver
    buf,        \* buf[d]: buf[..len] after the latest read of d
    dst,        \* dst[d]: bytes the writer of d has accepted
    result,     \* the value e of the select!
    shut,       \* shut[s]: shutdown() calls on stream s
    shutRes,    \* shutRes[s]: what shutdown() on s returned
    ends,       \* "tcp session ends" records logged
    got         \* got[d]: bytes the reader of d has delivered so far

relayVars == <<rpc, cpc, src, buf, dst, result, shut, shutRes, ends, got>>

VARIABLES
    files,      \* files[f]: what the file at the configured path f holds
    built,      \* built[h]: how the construction of handler h ended
    handled     \* the latest handle call and how it ended

hVars == <<files, built, handled>>

vars == <<poolVars, incVars, relayVars, hVars>>

(***************************************************************************)
(* QUIC outbound pool                                                      *)
(***************************************************************************)
\* struct Connection { new_conn, total_accepted, completed }
Connection(n, c) == [total_accepted |-> n, completed |-> c]

\* Vec::retain(|c| !c.completed)
Retain(s) == SelectSeq(s, LAMBDA c : ~c.completed)

\* The pools a concurrent run starts from: the empty pool of Manager::new,
\* or one live connection that earlier sequential calls have used c times.
WarmPools ==
    {<<>>} \cup {<<Connection(c, FALSE)>> : c \in {1, STREAM_CAP - 1, STREAM_CAP}}

\* the addresses a DNS lookup of Manager.address can return
Addrs == {"ip1", "ip2"}

\* the answers of the resolver: no address, one address, or two addresses
\* in the resolver's order
Answers == {<<>>, <<"ip1">>, <<"ip2", "ip1">>}

\* Manager.port
PORT == "port"

\* SocketAddr::new(ip, port)
SocketAddr(ip, port) == [ip |-> ip, port |-> port]

\* no connect_addr has been computed
NoAddr == SocketAddr("none", "none")

\* Manager::new: connections: Mutex::new(Vec::new())
InitManager ==
    /\ mutex = 0
    /\ pc = [p \in Procs |-> "idle"]
    /\ idx = [p \in Procs |-> 0]
    /\ ret = [p \in Procs |-> "none"]
    /\ calls = 0
    /\ streams = 0
    /\ swept = 0
    /\ dialed = [p \in Procs |-> FALSE]
    /\ lone = [p \in Procs |-> 0]
    /\ ips = [p \in Procs |-> <<>>]
    /\ target = [p \in Procs |-> NoAddr]

\* a caller enters new_stream
Enter(p) ==
    /\ pc[p] = "idle"
    /\ pc' = [pc EXCEPT ![p] = "sweep"]
    /\ calls' = calls + 1
    /\ dialed' = [dialed EXCEPT ![p] = FALSE]
    /\ lone' = [lone EXCEPT ![p] = IF @ = 1 THEN 2 ELSE 0]
    /\ UNCHANGED <<pool, mutex, idx, ret, streams, swept, ips, target,
                   incVars, relayVars, hVars>>

Call(p) == calls < MaxCalls /\ Enter(p)

CallFair(p) == calls < MaxFairCalls /\ Enter(p)

CallSeq(p) == calls < MaxSeqCalls /\ Enter(p)

\* Sweep with the predicate inverted: retain(|c| c.completed)
SweepInverted(p) ==
    /\ pc[p] = "sweep"
    /\ mutex = 0
    /\ pool' = SelectSeq(pool, LAMBDA c : c.completed)
    /\ pc' = [pc EXCEPT ![p] = "lock"]
    /\ swept' = Len(pool) - Len(SelectSeq(pool, LAMBDA c : c.completed))
    /\ UNCHANGED <<mutex, idx, ret, calls, streams, dialed, lone, ips, target,
                   incVars, relayVars, hVars>>

\* self.connections.lock().await.retain(|c| !c.completed);
\* the guard is a temporary of the statement: taken, used and dropped in it
Sweep(p) ==
    /\ pc[p] = "sweep"
    /\ mutex = 0
    /\ pool' = Retain(pool)
    /\ pc' = [pc EXCEPT ![p] = "lock"]
    /\ swept' = Len(pool) - Len(Retain(pool))
    /\ UNCHANGED <<mutex, idx, ret, calls, streams, dialed, lone, ips, target,
                   incVars, relayVars, hVars>>

\* LockReuse that iterates without waiting for the mutex
LockReuseNoWait(p) ==
    /\ pc[p] = "lock"
    /\ mutex' = p
    /\ idx' = [idx EXCEPT ![p] = 1]
    /\ pc' = [pc EXCEPT ![p] = "iter"]
    /\ UNCHANGED <<pool, ret, calls, streams, swept, dialed, lone, ips, target,
                   incVars, relayVars, hVars>>

\* for conn in self.connections.lock().await.iter_mut(): the guard is a
\* temporary of the iterator expression and lives to the end of the loop
LockReuse(p) ==
    /\ pc[p] = "lock"
    /\ mutex = 0
    /\ mutex' = p
    /\ idx' = [idx EXCEPT ![p] = 1]
    /\ pc' = [pc EXCEPT ![p] = "iter"]
    /\ UNCHANGED <<pool, ret, calls, streams, swept, dialed, lone, ips, target,
                   incVars, relayVars, hVars>>

\* Iter with the cap test off by one: total_accepted <= 128
IterLe(p) ==
    /\ pc[p] = "iter"
    /\ IF idx[p] > Len(pool)
       THEN /\ mutex' = 0
            /\ idx' = [idx EXCEPT ![p] = 0]
            /\ pc' = [pc EXCEPT ![p] = "endpoint"]
            /\ dialed' = [dialed EXCEPT ![p] = TRUE]
            /\ UNCHANGED pool
       ELSE IF pool[idx[p]].total_accepted <= STREAM_CAP
       THEN /\ pc' = [pc EXCEPT ![p] = "open_bi"]
            /\ UNCHANGED <<pool, mutex, idx, dialed>>
       ELSE /\ pool' = [pool EXCEPT ![idx[p]].completed = TRUE]
            /\ idx' = [idx EXCEPT ![p] = idx[p] + 1]
            /\ UNCHANGED <<pc, mutex, dialed>>
    /\ UNCHANGED <<ret, calls, streams, swept, lone, ips, target,
                   incVars, relayVars, hVars>>

\* Iter whose guard outlives the loop: the mutex is kept into the dial
IterKeepGuard(p) ==
    /\ pc[p] = "iter"
    /\ IF idx[p] > Len(pool)
       THEN /\ idx' = [idx EXCEPT ![p] = 0]
            /\ pc' = [pc EXCEPT ![p] = "endpoint"]
            /\ dialed' = [dialed EXCEPT ![p] = TRUE]
            /\ UNCHANGED <<pool, mutex>>
       ELSE IF pool[idx[p]].total_accepted < STREAM_CAP
       THEN /\ pc' = [pc EXCEPT ![p] = "open_bi"]
            /\ UNCHANGED <<pool, mutex, idx, dialed>>
       ELSE /\ pool' = [pool EXCEPT ![idx[p]].completed = TRUE]
            /\ idx' = [idx EXCEPT ![p] = idx[p] + 1]
            /\ UNCHANGED <<pc, mutex, dialed>>
    /\ UNCHANGED <<ret, calls, streams, swept, lone, ips, target,
                   incVars, relayVars, hVars>>

\* one step of the loop: the end of the iteration (the guard is dropped),
\* `if conn.total_accepted < 128` (open_bi is awaited), or the else branch
Iter(p) ==
    /\ pc[p] = "iter"
    /\ IF idx[p] > Len(pool)
       THEN /\ mutex' = 0
            /\ idx' = [idx EXCEPT ![p] = 0]
            /\ pc' = [pc EXCEPT ![p] = "endpoint"]
            /\ dialed' = [dialed EXCEPT ![p] = TRUE]
            /\ UNCHANGED pool
       ELSE IF pool[idx[p]].total_accepted < STREAM_CAP
       THEN /\ pc' = [pc EXCEPT ![p] = "open_bi"]
            /\ UNCHANGED <<pool, mutex, idx, dialed>>
       ELSE /\ pool' = [pool EXCEPT ![idx[p]].completed = TRUE]
            /\ idx' = [idx EXCEPT ![p] = idx[p] + 1]
            /\ UNCHANGED <<pc, mutex, dialed>>
    /\ UNCHANGED <<ret, calls, streams, swept, lone, ips, target,
                   incVars, relayVars, hVars>>

\* OpenBiOk that returns the stream without counting it
OpenBiOkNoCount(p) ==
    /\ pc[p] = "open_bi"
    /\ mutex' = 0
    /\ idx' = [idx EXCEPT ![p] = 0]
    /\ pc' = [pc EXCEPT ![p] = "idle"]
    /\ ret' = [ret EXCEPT ![p] = "Ok"]
    /\ streams' = streams + 1
    /\ UNCHANGED <<pool, calls, swept, dialed, lone, ips, target,
                   incVars, relayVars, hVars>>

\* open_bi().await = Ok: total_accepted += 1; return Ok(stream)
OpenBiOk(p) ==
    /\ pc[p] = "open_bi"
    /\ pool' = [pool EXCEPT ![idx[p]].total_accepted = @ + 1]
    /\ mutex' = 0
    /\ idx' = [idx EXCEPT ![p] = 0]
    /\ pc' = [pc EXCEPT ![p] = "idle"]
    /\ ret' = [ret EXCEPT ![p] = "Ok"]
    /\ streams' = streams + 1
    /\ UNCHANGED <<calls, swept, dialed, lone, ips, target,
                   incVars, relayVars, hVars>>

\* OpenBiErr that propagates the error (open_bi().await?) after marking
OpenBiErrReturn(p) ==
    /\ pc[p] = "open_bi"
    /\ pool' = [pool EXCEPT ![idx[p]].completed = TRUE]
    /\ mutex' = 0
    /\ idx' = [idx EXCEPT ![p] = 0]
    /\ pc' = [pc EXCEPT ![p] = "idle"]
    /\ ret' = [ret EXCEPT ![p] = "Other"]
    /\ lone' = [lone EXCEPT ![p] = IF Len(pool) = 1 THEN 1 ELSE @]
    /\ UNCHANGED <<calls, streams, swept, dialed, ips, target,
                   incVars, relayVars, hVars>>

\* open_bi().await = Err: conn.completed = true; the loop goes on
OpenBiErr(p) ==
    /\ pc[p] = "open_bi"
    /\ pool' = [pool EXCEPT ![idx[p]].completed = TRUE]
    /\ idx' = [idx EXCEPT ![p] = idx[p] + 1]
    /\ pc' = [pc EXCEPT ![p] = "iter"]
    /\ lone' = [lone EXCEPT ![p] = IF Len(pool) = 1 THEN 1 ELSE @]
    /\ UNCHANGED <<mutex, ret, calls, streams, swept, dialed, ips, target,
                   incVars, relayVars, hVars>>

\* the call leaves new_stream with Err(kind); its locals are dropped
Fail(p, kind) ==
    /\ pc' = [pc EXCEPT ![p] = "idle"]
    /\ ret' = [ret EXCEPT ![p] = kind]
    /\ ips' = [ips EXCEPT ![p] = <<>>]
    /\ target' = [target EXCEPT ![p] = NoAddr]
    /\ UNCHANGED <<pool, mutex, idx, calls, streams, swept, dialed, lone,
                   incVars, relayVars, hVars>>

\* the call moves on to its next await
Goto(p, next) ==
    /\ pc' = [pc EXCEPT ![p] = next]
    /\ UNCHANGED <<pool, mutex, idx, ret, calls, streams, swept, dialed, lone, ips, target,
                   incVars, relayVars, hVars>>

\* quinn::Endpoint::client(*UNSPECIFIED_BIND_ADDR)?
EndpointOk(p) == pc[p] = "endpoint" /\ Goto(p, "lookup")

EndpointErr(p) == pc[p] = "endpoint" /\ Fail(p, "Io")

\* dns_client.read().await.lookup(&self.address).map_err(..Other..).await?
\* the lookup returns the addresses a
LookupOk(p, a) ==
    /\ pc[p] = "lookup"
    /\ pc' = [pc EXCEPT ![p] = "resolved"]
    /\ ips' = [ips EXCEPT ![p] = a]
    /\ UNCHANGED <<pool, mutex, idx, ret, calls, streams, swept, dialed, lone,
                   target, incVars, relayVars, hVars>>

LookupErr(p) == pc[p] = "lookup" /\ Fail(p, "Other")

\* if ips.is_empty() { return Err(InvalidInput) }
LookupEmpty(p) == pc[p] = "resolved" /\ ips[p] = <<>> /\ Fail(p, "InvalidInput")

\* PickAddr that dials the last address returned
PickLast(p) ==
    /\ pc[p] = "resolved"
    /\ ips[p] # <<>>
    /\ target' = [target EXCEPT ![p] = SocketAddr(ips[p][Len(ips[p])], PORT)]
    /\ pc' = [pc EXCEPT ![p] = "connect"]
    /\ UNCHANGED <<pool, mutex, idx, ret, calls, streams, swept, dialed, lone,
                   ips, incVars, relayVars, hVars>>

\* let connect_addr = SocketAddr::new(ips[0], self.port);
\* endpoint.connect(connect_addr, server_name) is started
PickAddr(p) ==
    /\ pc[p] = "resolved"
    /\ ips[p] # <<>>
    /\ target' = [target EXCEPT ![p] = SocketAddr(ips[p][1], PORT)]
    /\ pc' = [pc EXCEPT ![p] = "connect"]
    /\ UNCHANGED <<pool, mutex, idx, ret, calls, streams, swept, dialed, lone,
                   ips, incVars, relayVars, hVars>>

\* endpoint.connect(..).map_err(quic_err)?.await.map_err(quic_err)?
ConnectOk(p) ==
    /\ pc[p] = "connect"
    /\ pc' = [pc EXCEPT ![p] = "open_new"]
    /\ ips' = [ips EXCEPT ![p] = <<>>]
    /\ target' = [target EXCEPT ![p] = NoAddr]
    /\ UNCHANGED <<pool, mutex, idx, ret, calls, streams, swept, dialed, lone,
                   incVars, relayVars, hVars>>

ConnectErr(p) == pc[p] = "connect" /\ Fail(p, "Other")

\* new_conn.connection.open_bi().await.map_err(quic_err)?
OpenNewOk(p) == pc[p] = "open_new" /\ Goto(p, "push")

\* OpenNewErr of a call that has pushed the connection before its open_bi
OpenNewErrPushed(p) ==
    /\ pc[p] = "open_new"
    /\ pool' = Append(pool, Connection(0, FALSE))
    /\ pc' = [pc EXCEPT ![p] = "idle"]
    /\ ret' = [ret EXCEPT ![p] = "Other"]
    /\ UNCHANGED <<mutex, idx, calls, streams, swept, dialed, lone, ips, target,
                   incVars, relayVars, hVars>>

OpenNewErr(p) == pc[p] = "open_new" /\ Fail(p, "Other")

\* Push of a connection that does not count its first stream
PushZero(p) ==
    /\ pc[p] = "push"
    /\ mutex = 0
    /\ pool' = Append(pool, Connection(0, FALSE))
    /\ pc' = [pc EXCEPT ![p] = "idle"]
    /\ ret' = [ret EXCEPT ![p] = "Ok"]
    /\ streams' = streams + 1
    /\ UNCHANGED <<mutex, idx, calls, swept, dialed, lone, ips, target,
                   incVars, relayVars, hVars>>

\* self.connections.lock().await.push(Connection { total_accepted: 1,
\* completed: false }); Ok(stream)
Push(p) ==
    /\ pc[p] = "push"
    /\ mutex = 0
    /\ pool' = Append(pool, Connection(1, FALSE))
    /\ pc' = [pc EXCEPT ![p] = "idle"]
    /\ ret' = [ret EXCEPT ![p] = "Ok"]
    /\ streams' = streams + 1
    /\ UNCHANGED <<mutex, idx, calls, swept, dialed, lone, ips, target,
                   incVars, relayVars, hVars>>

(***************************************************************************)
(* QUIC inbound accept pipeline                                            *)
(***************************************************************************)
\* the ascending sequence of the numbers in S (a Vec of indices pushed in
\* enumeration order)
RECURSIVE Asc(_)
Asc(S) ==
    IF S = {} THEN <<>>
    ELSE LET m == CHOOSE x \in S : \A y \in S : x <= y
         IN  <<m>> \o Asc(S \ {m})

\* Vec::swap_remove(i): the last element takes the place of element i
SwapRemove(s, i) ==
    IF i = Len(s) THEN SubSeq(s, 1, Len(s) - 1)
    ELSE SubSeq([s EXCEPT ![i] = s[Len(s)]], 1, Len(s) - 1)

\* Vec::remove(i): the elements after i shift left
Remove(s, i) == SubSeq(s, 1, i - 1) \o SubSeq(s, i + 1, Len(s))

\* for idx in completed.iter().rev() { self.connectings.swap_remove(*idx); }
RECURSIVE SwapRemoveRev(_, _)
SwapRemoveRev(s, completed) ==
    IF completed = <<>> THEN s
    ELSE SwapRemoveRev(SwapRemove(s, completed[Len(completed)]),
                       SubSeq(completed, 1, Len(completed) - 1))

\* for idx in completed.iter().rev() { self.new_conns.remove(*idx); }
RECURSIVE RemoveRev(_, _)
RemoveRev(s, completed) ==
    IF completed = <<>> THEN s
    ELSE RemoveRev(Remove(s, completed[Len(completed)]),
                   SubSeq(completed, 1, Len(completed) - 1))

\* Incoming::new
IncNew ==
    /\ innerQ = <<>>
    /\ innerClosed = FALSE
    /\ hs = [c \in Conns |-> "pending"]
    /\ bi = [c \in Conns |-> [ready |-> 0, state |-> "open"]]
    /\ arrived = 0
    /\ connectings = <<>>
    /\ new_conns = <<>>
    /\ incoming_closed = FALSE
    /\ polled = [res |-> "none", conn |-> 0, mid |-> <<>>]
    /\ tick = FALSE

\* the endpoint queues a connection attempt for inner.poll_next
Arrive ==
    /\ arrived < MaxConns
    /\ ~innerClosed
    /\ arrived' = arrived + 1
    /\ innerQ' = Append(innerQ, arrived + 1)
    /\ UNCHANGED <<innerClosed, hs, bi, connectings, new_conns, incoming_closed,
                   polled, tick, poolVars, relayVars, hVars>>

\* the endpoint closes: inner.poll_next ends with Ready(None)
CloseInner ==
    /\ ~innerClosed
    /\ innerClosed' = TRUE
    /\ UNCHANGED <<innerQ, hs, bi, arrived, connectings, new_conns,
                   incoming_closed, polled, tick, poolVars, relayVars, hVars>>

\* the handshake of c ends: its Connecting will poll Ready(Ok) / Ready(Err)
HandshakeOk(c) ==
    /\ c <= arrived
    /\ hs[c] = "pending"
    /\ hs' = [hs EXCEPT ![c] = "ok"]
    /\ UNCHANGED <<innerQ, innerClosed, bi, arrived, connectings, new_conns,
                   incoming_closed, polled, tick, poolVars, relayVars, hVars>>

HandshakeErr(c) ==
    /\ c <= arrived
    /\ hs[c] = "pending"
    /\ hs' = [hs EXCEPT ![c] = "err"]
    /\ UNCHANGED <<innerQ, innerClosed, bi, arrived, connectings, new_conns,
                   incoming_closed, polled, tick, poolVars, relayVars, hVars>>

\* the peer of c opens a bidirectional stream
StreamArrives(c) ==
    /\ hs[c] = "ok"
    /\ bi[c].state = "open"
    /\ bi[c].ready < MaxReady
    /\ bi' = [bi EXCEPT ![c].ready = @ + 1]
    /\ UNCHANGED <<innerQ, innerClosed, hs, arrived, connectings, new_conns,
                   incoming_closed, polled, tick, poolVars, relayVars, hVars>>

\* connection c is lost: bi_streams will end with Ready(Some(Err))
ConnLost(c) ==
    /\ hs[c] = "ok"
    /\ bi[c].state = "open"
    /\ bi' = [bi EXCEPT ![c].state = "err"]
    /\ UNCHANGED <<innerQ, innerClosed, hs, arrived, connectings, new_conns,
                   incoming_closed, polled, tick, poolVars, relayVars, hVars>>

\* connection c is closed: bi_streams will end with Ready(None)
ConnEnd(c) ==
    /\ hs[c] = "ok"
    /\ bi[c].state = "open"
    /\ bi' = [bi EXCEPT ![c].state = "end"]
    /\ UNCHANGED <<innerQ, innerClosed, hs, arrived, connectings, new_conns,
                   incoming_closed, polled, tick, poolVars, relayVars, hVars>>

\* Pin::new(&mut new_conn.bi_streams).poll_next(cx)
BiPoll(c) ==
    IF bi[c].ready > 0 THEN "stream"
    ELSE IF bi[c].state = "err" THEN "err"
    ELSE IF bi[c].state = "end" THEN "none"
    ELSE "pending"

\* if !self.incoming_closed { match inner.poll_next(cx) { .. } }
Accepted ==
    IF ~incoming_closed /\ innerQ # <<>>
    THEN Append(connectings, Head(innerQ))
    ELSE connectings

ObservedClosed == incoming_closed \/ (innerQ = <<>> /\ innerClosed)

\* Completed that leaves the failed handshakes in connectings
CompletedOkOnly(cs) == Asc({i \in DOMAIN cs : hs[cs[i]] = "ok"})

\* the indices pushed to `completed` by the loop over connectings
Completed(cs) == Asc({i \in DOMAIN cs : hs[cs[i]] # "pending"})

\* the local new_conns of the loop over connectings
Handshaken(cs) == SelectSeq(cs, LAMBDA c : hs[c] = "ok")

\* FirstStream that goes on after a stream and keeps the last one found
LastStream(ncs) ==
    IF \E i \in DOMAIN ncs : BiPoll(ncs[i]) = "stream"
    THEN CHOOSE i \in DOMAIN ncs :
            /\ BiPoll(ncs[i]) = "stream"
            /\ \A j \in (i + 1)..Len(ncs) : BiPoll(ncs[j]) # "stream"
    ELSE 0

\* the index at which the loop over new_conns breaks (0: it runs to the end)
FirstStream(ncs) ==
    IF \E i \in DOMAIN ncs : BiPoll(ncs[i]) = "stream"
    THEN CHOOSE i \in DOMAIN ncs :
            /\ BiPoll(ncs[i]) = "stream"
            /\ \A j \in 1..(i - 1) : BiPoll(ncs[j]) # "stream"
    ELSE 0

\* Retired that retires nothing in a poll that found a stream
RetiredUnlessStream(ncs) ==
    IF FirstStream(ncs) # 0 THEN <<>>
    ELSE Asc({i \in DOMAIN ncs : BiPoll(ncs[i]) \in {"err", "none"}})

\* the indices pushed to `completed` by the loop over new_conns
Retired(ncs) ==
    Asc({i \in DOMAIN ncs :
            /\ FirstStream(ncs) = 0 \/ i < FirstStream(ncs)
            /\ BiPoll(ncs[i]) \in {"err", "none"}})

\* PollResult without the test of connectings
PollResultNoConnectings(found, closed, cs, ncs) ==
    IF found THEN "ReadySome"
    ELSE IF closed /\ ncs = <<>> THEN "ReadyNone"
    ELSE "Pending"

\* if let Some(stream) = stream.take() { Ready(Some) } else if .. else ..
PollResult(found, closed, cs, ncs) ==
    IF found THEN "ReadySome"
    ELSE IF closed /\ cs = <<>> /\ ncs = <<>> THEN "ReadyNone"
    ELSE "Pending"

\* Incoming::poll_next, the whole call
PollNext ==
    LET cs1  == Accepted
        ncs1 == new_conns \o Handshaken(cs1)
        cs2  == SwapRemoveRev(cs1, Completed(cs1))
        k    == FirstStream(ncs1)
        ncs2 == RemoveRev(ncs1, Retired(ncs1))
    IN  /\ innerQ' = IF ~incoming_closed /\ innerQ # <<>> THEN Tail(innerQ)
                     ELSE innerQ
        /\ incoming_closed' = ObservedClosed
        /\ connectings' = cs2
        /\ new_conns' = ncs2
        /\ bi' = IF k # 0 THEN [bi EXCEPT ![ncs1[k]].ready = @ - 1] ELSE bi
        /\ polled' = [res  |-> PollResult(k # 0, ObservedClosed, cs2, ncs2),
                      conn |-> IF k # 0 THEN ncs1[k] ELSE 0,
                      mid  |-> ncs1]
        /\ tick' = ~tick
        /\ UNCHANGED <<innerClosed, hs, arrived, poolVars, relayVars, hVars>>

NextInc ==
    \/ PollNext
    \/ Arrive
    \/ CloseInner
    \/ \E c \in Conns :
        \/ HandshakeOk(c)
        \/ HandshakeErr(c)
        \/ StreamArrives(c)
        \/ ConnLost(c)
        \/ ConnEnd(c)

(***************************************************************************)
(* TCP relay                                                               *)
(***************************************************************************)
\* t1 = copy_tcp(a_rx, b_tx), t2 = copy_tcp(b_rx, a_tx)
Dirs == {"t1", "t2"}

Streams == {"a", "b"}

\* the byte sequences a peer sends: 1, 2, .., n
Inputs == {[i \in 1..n |-> i] : n \in 0..MaxBytes}

Min(x, y) == IF x <= y THEN x ELSE y

\* relay_tcp(a, b) is entered with the two copies created
RelayStart ==
    /\ rpc = "select"
    /\ cpc = [d \in Dirs |-> "read"]
    /\ src \in [Dirs -> Inputs]
    /\ buf = [d \in Dirs |-> <<>>]
    /\ dst = [d \in Dirs |-> <<>>]
    /\ result = "none"
    /\ shut = [s \in Streams |-> 0]
    /\ shutRes = [s \in Streams |-> "none"]
    /\ ends = 0
    /\ got = [d \in Dirs |-> <<>>]

\* Finish that propagates the error of the finished direction (e?) instead
\* of logging it: relay_tcp leaves without shutdown and without the record
FinishPropagate(d, r) ==
    /\ cpc' = [e \in Dirs |-> IF e = d THEN r ELSE "dropped"]
    /\ result' = r
    /\ rpc' = IF r = "err" THEN "raised" ELSE "shutdown_a"
    /\ UNCHANGED <<src, buf, dst, shut, shutRes, ends, got, poolVars, incVars, hVars>>

\* the select! completes with the result r of direction d; the other copy
\* is dropped
Finish(d, r) ==
    /\ cpc' = [e \in Dirs |-> IF e = d THEN r ELSE "dropped"]
    /\ result' = r
    /\ rpc' = "shutdown_a"
    /\ UNCHANGED <<src, buf, dst, shut, shutRes, ends, got, poolVars, incVars, hVars>>

\* let len = r.read(&mut buf).await?  with len > 0
ReadSome(d, n) ==
    /\ rpc = "select"
    /\ cpc[d] = "read"
    /\ n \in 1..Min(Len(src[d]), BUF_LEN)
    /\ buf' = [buf EXCEPT ![d] = SubSeq(src[d], 1, n)]
    /\ src' = [src EXCEPT ![d] = SubSeq(src[d], n + 1, Len(src[d]))]
    /\ got' = [got EXCEPT ![d] = got[d] \o SubSeq(src[d], 1, n)]
    /\ cpc' = [cpc EXCEPT ![d] = "write"]
    /\ UNCHANGED <<rpc, dst, result, shut, shutRes, ends, poolVars, incVars, hVars>>

\* len == 0: break; Ok(())
ReadEof(d) ==
    /\ rpc = "select"
    /\ cpc[d] = "read"
    /\ src[d] = <<>>
    /\ Finish(d, "ok")

ReadErr(d) ==
    /\ rpc = "select"
    /\ cpc[d] = "read"
    /\ Finish(d, "err")

\* Write that goes back to the read without flushing the writer
WriteNoFlush(d, n) ==
    /\ rpc = "select"
    /\ cpc[d] = "write"
    /\ n \in 0..Len(buf[d])
    /\ dst' = [dst EXCEPT ![d] = dst[d] \o SubSeq(buf[d], 1, n)]
    /\ cpc' = [cpc EXCEPT ![d] = "read"]
    /\ UNCHANGED <<rpc, src, buf, result, shut, shutRes, ends, got, poolVars, incVars, hVars>>

\* w.write(&buf[..len]).await?  the writer accepts n of the len bytes
Write(d, n) ==
    /\ rpc = "select"
    /\ cpc[d] = "write"
    /\ n \in 0..Len(buf[d])
    /\ dst' = [dst EXCEPT ![d] = dst[d] \o SubSeq(buf[d], 1, n)]
    /\ cpc' = [cpc EXCEPT ![d] = "flush"]
    /\ UNCHANGED <<rpc, src, buf, result, shut, shutRes, ends, got, poolVars, incVars, hVars>>

WriteErr(d) ==
    /\ rpc = "select"
    /\ cpc[d] = "write"
    /\ Finish(d, "err")

\* w.flush().await?
FlushOk(d) ==
    /\ rpc = "select"
    /\ cpc[d] = "flush"
    /\ cpc' = [cpc EXCEPT ![d] = "read"]
    /\ UNCHANGED <<rpc, src, buf, dst, result, shut, shutRes, ends, got, poolVars,
                   incVars, hVars>>

FlushErr(d) ==
    /\ rpc = "select"
    /\ cpc[d] = "flush"
    /\ Finish(d, "err")

\* ShutdownA that propagates the failure: a.shutdown().await?
ShutdownAPropagate(r) ==
    /\ rpc = "shutdown_a"
    /\ shut' = [shut EXCEPT !["a"] = @ + 1]
    /\ shutRes' = [shutRes EXCEPT !["a"] = r]
    /\ rpc' = IF r = "err" THEN "done" ELSE "shutdown_b"
    /\ UNCHANGED <<cpc, src, buf, dst, result, ends, got, poolVars, incVars, hVars>>

\* let _ = a.shutdown().await;
ShutdownA(r) ==
    /\ rpc = "shutdown_a"
    /\ shut' = [shut EXCEPT !["a"] = @ + 1]
    /\ shutRes' = [shutRes EXCEPT !["a"] = r]
    /\ rpc' = "shutdown_b"
    /\ UNCHANGED <<cpc, src, buf, dst, result, ends, got, poolVars, incVars, hVars>>

\* let _ = b.shutdown().await;
ShutdownB(r) ==
    /\ rpc = "shutdown_b"
    /\ shut' = [shut EXCEPT !["b"] = @ + 1]
    /\ shutRes' = [shutRes EXCEPT !["b"] = r]
    /\ rpc' = "log"
    /\ UNCHANGED <<cpc, src, buf, dst, result, ends, got, poolVars, incVars, hVars>>

\* SessionEnds that logs the record only when the select! returned Ok
SessionEndsOnSuccess ==
    /\ rpc = "log"
    /\ ends' = IF result = "ok" THEN ends + 1 ELSE ends
    /\ rpc' = "done"
    /\ UNCHANGED <<cpc, src, buf, dst, result, shut, shutRes, got, poolVars, incVars, hVars>>

\* info!("tcp session ends"); and relay_tcp returns
SessionEnds ==
    /\ rpc = "log"
    /\ ends' = ends + 1
    /\ rpc' = "done"
    /\ UNCHANGED <<cpc, src, buf, dst, result, shut, shutRes, got, poolVars, incVars, hVars>>

NextRelay ==
    \/ \E d \in Dirs :
        \/ \E n \in 1..MaxBytes : ReadSome(d, n)
        \/ ReadEof(d)
        \/ ReadErr(d)
        \/ \E n \in 0..MaxBytes : Write(d, n)
        \/ WriteErr(d)
        \/ FlushOk(d)
        \/ FlushErr(d)
    \/ \E r \in {"ok", "err"} :
        \/ ShutdownA(r)
        \/ ShutdownB(r)
    \/ SessionEnds

(***************************************************************************)
(* Handlers: construction and handle of the drop, TLS and QUIC handlers    *)
(* (the rustls-tls build, PEM paths)                                       *)
(*   src/flower/src/proxy/drop/tcp.rs                                      *)
(*   src/flower/src/proxy/tls/inbound/tcp.rs, tls/outbound/tcp.rs          *)
(*   src/flower/src/proxy/quic/inbound/udp.rs, quic/outbound/tcp.rs        *)
(***************************************************************************)
Handlers == {"drop", "tls_in", "tls_out", "quic_in", "quic_out"}

\* the handlers that are constructed with certificate or key file paths
FileHandlers == {"tls_in", "tls_out", "quic_in", "quic_out"}

\* the PEM sections of a key file: PKCS#8, PKCS#1 (RSA), any other section
Fmts == {"pkcs8", "rsa", "ec"}

\* a path holds no file, bytes no PEM parser accepts, or PEM sections
File(state, items) == [state |-> state, items |-> items]

CertFiles ==
    {File("missing", <<>>), File("malformed", <<>>)}
    \cup {File("pem", [i \in 1..n |-> "cert"]) : n \in 0..MaxCerts}

KeyFiles ==
    {File("missing", <<>>), File("malformed", <<>>)}
    \cup {File("pem", k) : k \in UNION {[1..n -> Fmts] : n \in 0..MaxKeys}}

\* server names of the configuration and destination hosts of a session;
\* rustls::ServerName::try_from accepts the names in ValidNames
Names == {"", "example.com", "exa mple"}

ValidNames == {"example.com"}

\* io::Result values; a panic unwinds instead of returning
Ok(v) == [status |-> "ok", kind |-> "", msg |-> "", val |-> v]

Err(kind, msg) == [status |-> "err", kind |-> kind, msg |-> msg, val |-> <<>>]

Panic == [status |-> "panic", kind |-> "", msg |-> "", val |-> <<>>]

\* rustls_pemfile::{pkcs8_private_keys, rsa_private_keys, certs}: the
\* sections of one kind, in file order (a key is named by its position)
PemItems(f, fmt) ==
    IF f.state = "pem"
    THEN Ok(Asc({i \in DOMAIN f.items : f.items[i] = fmt}))
    ELSE Err("InvalidData", "pem")

\* tls/inbound load_certs: File::open(path)?, certs(..).map_err(..).unwrap()
load_certs(f) ==
    IF f.state = "missing" THEN Err("NotFound", "open")
    ELSE IF PemItems(f, "cert").status = "err" THEN Panic
    ELSE Ok(PemItems(f, "cert").val)

\* load_keys that puts the RSA keys before the PKCS#8 keys
load_keys_rsa_first(f) ==
    IF f.state = "missing" THEN Err("NotFound", "open")
    ELSE IF PemItems(f, "pkcs8").status = "err"
    THEN Err("InvalidInput", "invalid key")
    ELSE IF PemItems(f, "rsa").status = "err"
    THEN Err("InvalidInput", "invalid key")
    ELSE Ok(PemItems(f, "rsa").val \o PemItems(f, "pkcs8").val)

\* tls/inbound load_keys: keys = pkcs8_private_keys(..)?;
\* keys2 = rsa_private_keys(..)?; keys.append(&mut keys2)
load_keys(f) ==
    IF f.state = "missing" THEN Err("NotFound", "open")
    ELSE IF PemItems(f, "pkcs8").status = "err"
    THEN Err("InvalidInput", "invalid key")
    ELSE IF PemItems(f, "rsa").status = "err"
    THEN Err("InvalidInput", "invalid key")
    ELSE Ok(PemItems(f, "pkcs8").val \o PemItems(f, "rsa").val)

\* tls/outbound load_certs: certs(File::open(path)?).map_err(InvalidInput)
client_load_certs(f) ==
    IF f.state = "missing" THEN Err("NotFound", "open")
    ELSE IF PemItems(f, "cert").status = "err"
    THEN Err("InvalidInput", "invalid cert")
    ELSE Ok(PemItems(f, "cert").val)

\* how a construction ended: the handler (status ok) with the key it
\* installed, its server_name and whether a certificate path was given
Built(r, key, name, withCert) ==
    [status |-> r.status, kind |-> r.kind, msg |-> r.msg, key |-> key,
     name |-> name, withCert |-> withCert]

Unbuilt ==
    [status |-> "unbuilt", kind |-> "", msg |-> "", key |-> 0, name |-> "",
     withCert |-> FALSE]

\* a handle call of handler h: its arguments, the value of connect_addr, how
\* the call ended, and the configured files it read
Handled(h, stream, host, addr, r, reads) ==
    [h |-> h, stream |-> stream, host |-> host, addr |-> addr,
     status |-> r.status, kind |-> r.kind, msg |-> r.msg, reads |-> reads]

NotHandled == Handled("none", "none", "", "n/a", Ok(<<>>), {})

\* the state before any handler is constructed
InitHandlers ==
    /\ built = [h \in Handlers |-> Unbuilt]
    /\ handled = NotHandled

\* connect_addr of the outbound handlers: None (drop, tls) or
\* Some(OutboundConnect::NoConnect) (quic)
connect_addr(h) == IF h = "quic_out" THEN "Some(NoConnect)" ELSE "None"

\* ---- drop ----
\* the drop handler is a unit struct
NewDrop ==
    /\ built["drop"].status = "unbuilt"
    /\ built' = [built EXCEPT !["drop"] = Built(Ok(<<>>), 0, "", FALSE)]
    /\ UNCHANGED <<files, handled, poolVars, incVars, relayVars>>

\* a drop handle that hands back the stream it was given
drop_handle_pass(host, stream) ==
    IF stream = "some" THEN Ok(<<>>) ELSE Err("Other", "dropped")

\* drop handle: Err(io::Error::new(io::ErrorKind::Other, "dropped"))
drop_handle(host, stream) == Err("Other", "dropped")

HandleDrop(host, stream) ==
    /\ built["drop"].status = "ok"
    /\ handled' = Handled("drop", stream, host, connect_addr("drop"),
                          drop_handle(host, stream), {})
    /\ UNCHANGED <<files, built, poolVars, incVars, relayVars>>

\* ---- TLS inbound ----
\* Handler::new: load_certs(..)?, load_keys(..)?, keys.remove(0) (panics on
\* an empty Vec), with_single_cert(..).map_err(InvalidInput)?
tls_in_new(cert, key, singleOk) ==
    IF load_certs(cert).status # "ok"
    THEN Built(load_certs(cert), 0, "", TRUE)
    ELSE IF load_keys(key).status # "ok"
    THEN Built(load_keys(key), 0, "", TRUE)
    ELSE IF load_keys(key).val = <<>>
    THEN Built(Panic, 0, "", TRUE)
    ELSE IF ~singleOk
    THEN Built(Err("InvalidInput", "with_single_cert"), 0, "", TRUE)
    ELSE Built(Ok(<<>>), load_keys(key).val[1], "", TRUE)

NewTlsIn(singleOk) ==
    /\ built["tls_in"].status = "unbuilt"
    /\ built' = [built EXCEPT
                   !["tls_in"] = tls_in_new(files.cert, files.key, singleOk)]
    /\ UNCHANGED <<files, handled, poolVars, incVars, relayVars>>

\* handle: self.acceptor.accept(stream).await?
HandleTlsIn(acceptOk) ==
    /\ built["tls_in"].status = "ok"
    /\ handled' = Handled("tls_in", "some", "", "n/a",
                          IF acceptOk THEN Ok(<<>>) ELSE Err("Io", "accept"),
                          {})
    /\ UNCHANGED <<files, built, poolVars, incVars, relayVars>>

\* ---- TLS outbound ----
\* Handler::new: if let Some(cert) = certificate { load_certs(path).unwrap() }
tls_out_new(cert, name, withCert) ==
    IF withCert /\ client_load_certs(cert).status # "ok"
    THEN Built(Panic, 0, name, withCert)
    ELSE Built(Ok(<<>>), 0, name, withCert)

NewTlsOut(name, withCert) ==
    /\ built["tls_out"].status = "unbuilt"
    /\ built' = [built EXCEPT
                   !["tls_out"] = tls_out_new(files.cert, name, withCert)]
    /\ UNCHANGED <<files, handled, poolVars, incVars, relayVars>>

\* handle: name = server_name, or the destination host when it is empty;
\* Some(stream): ServerName::try_from(name) (InvalidInput "invalid dnsname"),
\* connect(..).map_err(tls_err) (Other "tls error"); None: Other "invalid
\* tls input"
tls_out_handle(server_name, host, stream, hsOk) ==
    LET name == IF server_name # "" THEN server_name ELSE host
    IN  IF stream = "some"
        THEN IF name \notin ValidNames
             THEN Err("InvalidInput", "invalid dnsname")
             ELSE IF ~hsOk THEN Err("Other", "tls error")
             ELSE Ok(<<>>)
        ELSE Err("Other", "invalid tls input")

HandleTlsOut(host, stream, hsOk) ==
    /\ built["tls_out"].status = "ok"
    /\ handled' = Handled("tls_out", stream, host, connect_addr("tls_out"),
                          tls_out_handle(built["tls_out"].name, host, stream,
                                         hsOk), {})
    /\ UNCHANGED <<files, built, poolVars, incVars, relayVars>>

\* ---- QUIC inbound ----
\* Handler::new stores the two paths
NewQuicIn ==
    /\ built["quic_in"].status = "unbuilt"
    /\ built' = [built EXCEPT !["quic_in"] = Built(Ok(<<>>), 0, "", TRUE)]
    /\ UNCHANGED <<files, handled, poolVars, incVars, relayVars>>

\* the key handle picks: the first PKCS#8 key, else the first RSA key, else
\* PrivateKey(Vec::new()) (0)
quic_in_key(key) ==
    IF PemItems(key, "pkcs8").val # <<>> THEN PemItems(key, "pkcs8").val[1]
    ELSE IF PemItems(key, "rsa").val # <<>> THEN PemItems(key, "rsa").val[1]
    ELSE 0

\* handle: fs::read of both files (?), the key parsers (unwrap), certs
\* (unwrap), with_single_cert (unwrap; no empty key is accepted),
\* Endpoint::new (?)
quic_in_handle(cert, key, singleOk, bindOk) ==
    IF cert.state = "missing" \/ key.state = "missing"
    THEN Err("NotFound", "read")
    ELSE IF key.state = "malformed" \/ cert.state = "malformed" THEN Panic
    ELSE IF quic_in_key(key) = 0 \/ ~singleOk THEN Panic
    ELSE IF ~bindOk THEN Err("Io", "endpoint")
    ELSE Ok(<<>>)

\* the files handle reads: the key file is not read when the certificate
\* file is missing
quic_in_reads(cert) == IF cert.state = "missing" THEN {"cert"} ELSE {"cert", "key"}

HandleQuicIn(singleOk, bindOk) ==
    /\ built["quic_in"].status = "ok"
    /\ handled' = Handled("quic_in", "some", "", "n/a",
                          quic_in_handle(files.cert, files.key, singleOk,
                                         bindOk),
                          quic_in_reads(files.cert))
    /\ UNCHANGED <<files, built, poolVars, incVars, relayVars>>

\* ---- QUIC outbound ----
\* Manager::new: fs::read(cert_path): Ok: root_certs.add(..).unwrap();
\* NotFound: info!(..) and the construction goes on; it returns Self
quic_out_new(cert, withCert, addOk) ==
    IF ~withCert \/ cert.state = "missing"
    THEN Built(Ok(<<>>), 0, "", withCert)
    ELSE IF cert.state = "malformed" \/ ~addOk
    THEN Built(Panic, 0, "", withCert)
    ELSE Built(Ok(<<>>), 0, "", withCert)

NewQuicOut(withCert, addOk) ==
    /\ built["quic_out"].status = "unbuilt"
    /\ built' = [built EXCEPT
                   !["quic_out"] = quic_out_new(files.cert, withCert, addOk)]
    /\ UNCHANGED <<files, handled, poolVars, incVars, relayVars>>

\* handle: Ok(Box::new(self.new_stream().await?))
HandleQuicOut(stream, r) ==
    /\ built["quic_out"].status = "ok"
    /\ handled' = Handled("quic_out", stream, "", connect_addr("quic_out"),
                          IF r = "Ok" THEN Ok(<<>>) ELSE Err(r, "new_stream"),
                          {})
    /\ UNCHANGED <<files, built, poolVars, incVars, relayVars>>

\* no handler has been constructed yet
NoHandler == \A h \in Handlers : built[h] = Unbuilt

\* one handler is constructed, over the configured files, and then called
NextHandlers ==
    \/ NoHandler /\ NewDrop
    \/ NoHandler /\ \E singleOk \in BOOLEAN : NewTlsIn(singleOk)
    \/ NoHandler /\ \E name \in Names, withCert \in BOOLEAN :
            NewTlsOut(name, withCert)
    \/ NoHandler /\ NewQuicIn
    \/ NoHandler /\ \E withCert, addOk \in BOOLEAN : NewQuicOut(withCert, addOk)
    \/ \E host \in Names, stream \in {"none", "some"} : HandleDrop(host, stream)
    \/ \E acceptOk \in BOOLEAN : HandleTlsIn(acceptOk)
    \/ \E host \in Names, stream \in {"none", "some"}, hsOk \in BOOLEAN :
        HandleTlsOut(host, stream, hsOk)
    \/ \E singleOk, bindOk \in BOOLEAN : HandleQuicIn(singleOk, bindOk)
    \/ \E stream \in {"none", "some"},
          r \in {"Ok", "Io", "Other", "InvalidInput"} :
        HandleQuicOut(stream, r)

(***************************************************************************)
(* Specifications                                                          *)
(***************************************************************************)
\* the parts a specification leaves at rest
PoolIdle == InitManager /\ pool = <<>>

IncIdle == IncNew

RelayIdle == RelayStart /\ src = [d \in Dirs |-> <<>>]

HandlersIdle ==
    InitHandlers /\ files = [cert |-> File("missing", <<>>), key |-> File("missing", <<>>)]

\* concurrent callers, any outcome of every await
InitPool ==
    InitManager /\ pool \in WarmPools /\ IncIdle /\ RelayIdle /\ HandlersIdle

NextPool ==
    \E p \in Procs :
        \/ Call(p)
        \/ Sweep(p)
        \/ LockReuse(p)
        \/ Iter(p)
        \/ OpenBiOk(p)
        \/ OpenBiErr(p)
        \/ EndpointOk(p)
        \/ EndpointErr(p)
        \/ \E a \in Answers : LookupOk(p, a)
        \/ LookupErr(p)
        \/ LookupEmpty(p)
        \/ PickAddr(p)
        \/ ConnectOk(p)
        \/ ConnectErr(p)
        \/ OpenNewOk(p)
        \/ OpenNewErr(p)
        \/ Push(p)

SpecPool == InitPool /\ [][NextPool]_vars

\* one caller at a time (no two calls overlap), any outcome of every await
NextSolo ==
    \E p \in {1} :
        \/ Call(p)
        \/ Sweep(p)
        \/ LockReuse(p)
        \/ Iter(p)
        \/ OpenBiOk(p)
        \/ OpenBiErr(p)
        \/ EndpointOk(p)
        \/ EndpointErr(p)
        \/ \E a \in Answers : LookupOk(p, a)
        \/ LookupErr(p)
        \/ LookupEmpty(p)
        \/ PickAddr(p)
        \/ ConnectOk(p)
        \/ ConnectErr(p)
        \/ OpenNewOk(p)
        \/ OpenNewErr(p)
        \/ Push(p)

SpecSolo == InitPool /\ [][NextSolo]_vars

\* two concurrent callers whose awaits all complete and to whom the mutex is
\* granted fairly (tokio's Mutex queues its waiters first in, first out)
FairProcs == {1, 2}

NextFair ==
    \E p \in FairProcs :
        \/ CallFair(p)
        \/ Sweep(p)
        \/ LockReuse(p)
        \/ Iter(p)
        \/ OpenBiOk(p)
        \/ OpenBiErr(p)
        \/ EndpointOk(p)
        \/ EndpointErr(p)
        \/ \E a \in Answers : LookupOk(p, a)
        \/ LookupErr(p)
        \/ LookupEmpty(p)
        \/ PickAddr(p)
        \/ ConnectOk(p)
        \/ ConnectErr(p)
        \/ OpenNewOk(p)
        \/ OpenNewErr(p)
        \/ Push(p)

\* every await of a call completes; every lock().await is granted
FairPool ==
    \A p \in FairProcs :
        /\ SF_vars(Sweep(p))
        /\ SF_vars(LockReuse(p))
        /\ WF_vars(Iter(p))
        /\ WF_vars(OpenBiOk(p) \/ OpenBiErr(p))
        /\ WF_vars(EndpointOk(p) \/ EndpointErr(p))
        /\ WF_vars((\E a \in Answers : LookupOk(p, a)) \/ LookupErr(p))
        /\ WF_vars(LookupEmpty(p) \/ PickAddr(p))
        /\ WF_vars(ConnectOk(p) \/ ConnectErr(p))
        /\ WF_vars(OpenNewOk(p) \/ OpenNewErr(p))
        /\ SF_vars(Push(p))

SpecPoolFair == InitPool /\ [][NextFair]_vars /\ FairPool

\* one caller at a time, from the empty pool of Manager::new, where the
\* dial and every open_bi succeed
InitSeq == InitManager /\ pool = <<>> /\ IncIdle /\ RelayIdle /\ HandlersIdle

NextSeq ==
    \E p \in {1} :
        \/ CallSeq(p)
        \/ Sweep(p)
        \/ LockReuse(p)
        \/ Iter(p)
        \/ OpenBiOk(p)
        \/ EndpointOk(p)
        \/ \E a \in {<<"ip1">>} : LookupOk(p, a)
        \/ PickAddr(p)
        \/ ConnectOk(p)
        \/ OpenNewOk(p)
        \/ Push(p)

SpecSeq == InitSeq /\ [][NextSeq]_vars

\* the accept pipeline, polled at any time, with any behaviour of the peers
InitInc == IncNew /\ PoolIdle /\ RelayIdle /\ HandlersIdle

SpecInc == InitInc /\ [][NextInc]_vars

\* the consumer of the Incoming stream keeps polling it
SpecIncFair == InitInc /\ [][NextInc]_vars /\ WF_vars(PollNext)

\* one relayed session, with any behaviour of the two streams
InitRelay == RelayStart /\ PoolIdle /\ IncIdle /\ HandlersIdle

SpecRelay == InitRelay /\ [][NextRelay]_vars

\* the handlers, constructed over any content of the configured files and
\* called with any arguments
InitFiles ==
    /\ files \in [cert : CertFiles, key : KeyFiles]
    /\ InitHandlers
    /\ PoolIdle /\ IncIdle /\ RelayIdle

SpecHandlers == InitFiles /\ [][NextHandlers]_vars

(***************************************************************************)
(* Properties of the QUIC outbound pool                                    *)
(***************************************************************************)
\* positions of the connections not marked completed
Live(s) == {i \in DOMAIN s : ~s[i].completed}

\* caller p's call returns Ok(stream) in this step
ReturnsOk(p) == pc[p] # "idle" /\ pc'[p] = "idle" /\ ret'[p] = "Ok"

\* this step is some caller's retain()
SweepStep == \E p \in Procs : pc[p] = "sweep" /\ pc'[p] = "lock"

\* exactly one pooled connection's count grew, by exactly 1, nothing appended
IncOne ==
    /\ Len(pool') = Len(pool)
    /\ \E i \in DOMAIN pool :
        /\ pool'[i].total_accepted = pool[i].total_accepted + 1
        /\ \A j \in DOMAIN pool \ {i} :
            pool'[j].total_accepted = pool[j].total_accepted

\* exactly one connection was appended, {count 1, not completed}, no count grew
AppOne ==
    /\ Len(pool') = Len(pool) + 1
    /\ pool'[Len(pool')] = Connection(1, FALSE)
    /\ \A j \in DOMAIN pool : pool'[j] = pool[j]

\* no count grew and nothing was appended
NoGain ==
    /\ Len(pool') <= Len(pool)
    /\ Len(pool') = Len(pool) =>
        \A j \in DOMAIN pool : pool'[j].total_accepted = pool[j].total_accepted

\* C1: in every reachable state of the pool, under any interleaving of
\* concurrent new_stream calls and any outcome of open_bi and of the dial,
\* every connection's total_accepted is at most STREAM_CAP (128).
C1_CountAtMostCap == \A i \in DOMAIN pool : pool[i].total_accepted <= STREAM_CAP

\* a reuse pass has stepped over a saturated connection after a stream was
\* returned: the connection is at the cap, marked, and was not opened again
C1_Witness ==
    \E p \in Procs :
        /\ pc[p] = "iter"
        /\ idx[p] > 1
        /\ streams >= 1
        /\ pool[idx[p] - 1] = Connection(STREAM_CAP, TRUE)

\* C2: the step in which a new_stream call returns Ok either increases
\* exactly one pooled connection's count by exactly 1 or appends exactly one
\* connection {count 1, completed false}, never both and never neither; no
\* other step of any call increases a count or appends.
C2_OneIncrementOrOneAppend ==
    [][IF \E p \in Procs : ReturnsOk(p)
       THEN (IncOne \/ AppOne) /\ ~(IncOne /\ AppOne)
       ELSE NoGain]_vars

\* one caller has returned a stream by appending, another by reuse
C2_Witness ==
    \E p, q \in Procs :
        /\ pc[p] = "idle" /\ ret[p] = "Ok" /\ dialed[p]
        /\ pc[q] = "idle" /\ ret[q] = "Ok" /\ ~dialed[q]
        /\ Len(pool) >= 1

\* C5: once a connection is marked completed no reuse pass attempts open_bi
\* on it and its count never changes again; before that its count never
\* decreases.  (Positions are stable in every step but a retain().)
C5_RetiredNeverVisited ==
    [][/\ \A p \in Procs :
            pc'[p] = "open_bi" => ~pool'[idx'[p]].completed
       /\ ~SweepStep =>
            \A i \in DOMAIN pool :
                /\ i \in DOMAIN pool'
                /\ pool'[i].total_accepted >= pool[i].total_accepted
                /\ pool[i].completed =>
                       pool'[i].total_accepted = pool[i].total_accepted]_vars

\* C6: the retain() at the start of a call removes every connection marked
\* completed and no other, the survivors keeping their order, counts and
\* flags; in every other step each connection keeps its position and a
\* completed flag that is true stays true.
C6_SweepRemovesExactlyRetired ==
    [][IF SweepStep
       THEN /\ Len(pool') = Cardinality(Live(pool))
            /\ \A i \in Live(pool) :
                pool'[i - Cardinality({j \in 1..i : pool[j].completed})] = pool[i]
       ELSE \A i \in DOMAIN pool :
                /\ i \in DOMAIN pool'
                /\ pool[i].completed => pool'[i].completed]_vars

\* a retain() has just removed a completed connection and kept a live one
C6_Witness ==
    /\ swept >= 1
    /\ Len(pool) >= 1
    /\ Live(pool) = DOMAIN pool
    /\ \E p \in Procs : pc[p] = "lock"

\* C7 as stated: after a call in which open_bi failed on the only pooled
\* connection, it is the next call that dials, and it ends with a pool of 1.
C7_NextCallDials ==
    \A p \in {1} :
        (lone[p] = 2 /\ pc[p] = "idle" /\ ret[p] = "Ok") =>
            (dialed[p] /\ Len(pool) = 1)

\* C7 amended: when open_bi fails on the only pooled connection, that
\* connection is marked completed and the same call goes on to dial; if it
\* returns a stream the pool holds the completed connection and a new one
\* with count 1; the next call's retain() removes the completed connection,
\* leaving one connection if the dial succeeded and none if it failed.
C7_SameCallDials ==
    \A p \in {1} :
        /\ (lone[p] = 1 /\ pc[p] \in {"iter", "endpoint"}) =>
               (Len(pool) = 1 /\ pool[1].completed)
        /\ (lone[p] = 1 /\ pc[p] = "idle") =>
               /\ dialed[p]
               /\ IF ret[p] = "Ok"
                  THEN /\ Len(pool) = 2
                       /\ pool[1].completed
                       /\ pool[2] = Connection(1, FALSE)
                  ELSE Len(pool) = 1 /\ pool[1].completed
        /\ (lone[p] = 2 /\ pc[p] = "lock") =>
               IF ret[p] = "Ok"
               THEN pool = <<Connection(1, FALSE)>> /\ swept = 1
               ELSE pool = <<>> /\ swept = 1

\* the call after the failing one has swept the completed connection and
\* returned a stream of the connection the failing call dialed
C7_Witness ==
    \E p \in {1} :
        /\ lone[p] = 2
        /\ pc[p] = "idle"
        /\ ret[p] = "Ok"
        /\ ~dialed[p]
        /\ pool = <<Connection(2, FALSE)>>

\* C8: from the empty pool, n <= STREAM_CAP calls one after the other, the
\* dial and every open_bi succeeding, return n streams and leave exactly one
\* connection, not completed, with total_accepted = n.
C8_SequentialReuse ==
    \A n \in 1..STREAM_CAP :
        (calls = n /\ pc[1] = "idle") =>
            (streams = n /\ pool = <<Connection(n, FALSE)>>)

\* the spec's case: 10 calls, one connection with count 10
C8_Witness ==
    /\ calls = 10
    /\ pc[1] = "idle"
    /\ streams = 10
    /\ pool = <<Connection(10, FALSE)>>

\* C9: from the empty pool, every dial and open_bi succeeding, call number
\* STREAM_CAP + 1 never awaits open_bi on a pooled connection but dials, and
\* after it the pool holds the saturated connection and a second one with
\* total_accepted = 1.
C9_CapCrossing ==
    /\ calls = STREAM_CAP + 1 => pc[1] # "open_bi"
    /\ (calls = STREAM_CAP + 1 /\ pc[1] = "idle") =>
           /\ dialed[1]
           /\ streams = STREAM_CAP + 1
           /\ Len(pool) = 2
           /\ pool[1].total_accepted = STREAM_CAP
           /\ pool[2] = Connection(1, FALSE)

\* call 129 has returned and the pool has two connections
C9_Witness ==
    /\ calls = STREAM_CAP + 1
    /\ pc[1] = "idle"
    /\ Len(pool) = 2
    /\ pool[2].total_accepted = 1

\* C10: a caller inside the reuse pass (at the loop head or awaiting open_bi
\* on a pooled connection) holds the mutex, so at most one caller is inside
\* it, only that caller holds the mutex across steps, and the open_bi that
\* succeeds adds exactly 1 to the count the connection has at that moment.
C10_ReusePassExclusive ==
    [][/\ \A p \in Procs : pc'[p] \in {"iter", "open_bi"} => mutex' = p
       /\ Cardinality({p \in Procs : pc'[p] \in {"iter", "open_bi"}}) <= 1
       /\ mutex' # 0 => pc'[mutex'] \in {"iter", "open_bi"}
       /\ \A p \in Procs :
            (pc[p] = "open_bi" /\ ReturnsOk(p)) =>
                /\ pool'[idx[p]].total_accepted = pool[idx[p]].total_accepted + 1
                /\ streams' = streams + 1]_vars

\* one caller awaits open_bi on a pooled connection, holding the mutex,
\* while the other waits for the mutex to start its own reuse pass
C10_Witness ==
    \E p, q \in Procs :
        /\ pc[p] = "open_bi"
        /\ mutex = p
        /\ pc[q] = "lock"

\* the awaits of the dial: Endpoint::client, the DNS lookup, connect and the
\* handshake, open_bi on the dialed connection, the lock() of the push
DialStages ==
    {"endpoint", "lookup", "resolved", "connect", "open_new", "push"}

\* C11: a new_stream call never holds the pool mutex while it is suspended
\* in the DNS resolution, in the connect/handshake or in the open_bi on the
\* connection it dialed; while one call is dialing and no call is inside a
\* reuse pass the mutex is free, so that another call waiting for it can
\* take it (its retain() or its reuse pass is enabled).
C11_DialWithoutMutex ==
    /\ \A p \in Procs : pc[p] \in DialStages => mutex # p
    /\ \A p, q \in Procs :
        (/\ pc[p] \in DialStages
         /\ \A r \in Procs : pc[r] \notin {"iter", "open_bi"}) =>
            /\ mutex = 0
            /\ pc[q] = "sweep" => ENABLED Sweep(q)
            /\ pc[q] = "lock" => ENABLED LockReuse(q)

\* one call is suspended in connect while the pool holds a live connection
\* with count 2 that its reuse pass never saw: the other caller took the
\* mutex during the dial, pushed that connection and reused it in a later
\* call
C11_Witness ==
    \E p, q \in Procs :
        /\ pc[p] = "connect"
        /\ pc[q] = "idle" /\ ret[q] = "Ok" /\ ~dialed[q]
        /\ pool = <<Connection(2, FALSE)>>

Usable(s) ==
    {i \in DOMAIN s : ~s[i].completed /\ s[i].total_accepted < STREAM_CAP}

\* C21: new_stream appends a connection only when, at that moment, every
\* other pooled connection is saturated (count = STREAM_CAP) or marked
\* completed; under any interleaving of concurrent calls the pool never
\* holds two connections that are both not completed and below STREAM_CAP.
C21_OneUsableSlot ==
    [][/\ Len(pool') = Len(pool) + 1 => Usable(pool) = {}
       /\ Cardinality(Usable(pool')) <= 1]_vars

\* this step is a step of caller p
StepOf(p) == pc'[p] # pc[p] \/ idx'[p] # idx[p]

\* caller p's call returns an error in this step
ReturnsErr(p) == pc[p] # "idle" /\ pc'[p] = "idle" /\ ret'[p] # "Ok"

\* the step only marks the connection under p's cursor completed
MarksVisited(p) ==
    /\ pc[p] \in {"iter", "open_bi"}
    /\ idx[p] \in DOMAIN pool
    /\ pool' = [pool EXCEPT ![idx[p]].completed = TRUE]

\* the step only removes connections that were marked completed
RemovesRetired ==
    pool' = SelectSeq(pool, LAMBDA c : ~c.completed)

\* C26: a new_stream call that returns an error (a failed lookup, an empty
\* lookup result, a failed connect or a failed open_bi on the dialed
\* connection) returns from the dial without touching the pool or handing
\* out a stream, and no step of a call other than the one that returns Ok
\* appends a connection or increases a count: all such a step does to the
\* pool is to remove connections already marked completed (the sweep) or to
\* mark the connection it visits completed.
C26_ErrorLeavesNoGain ==
    [][\A p \in Procs :
        /\ (StepOf(p) /\ ~ReturnsOk(p)) =>
               \/ pool' = pool
               \/ pc[p] = "sweep" /\ RemovesRetired
               \/ MarksVisited(p)
        /\ ReturnsErr(p) =>
               /\ pc[p] \in DialStages
               /\ pool' = pool
               /\ streams' = streams]_vars

\* a call has returned an error from its dial after its open_bi failed on
\* the only pooled connection: the pool holds that connection, marked, with
\* its count unchanged, and nothing else
C26_Witness ==
    \E p \in Procs :
        /\ pc[p] = "idle"
        /\ ret[p] = "Other"
        /\ dialed[p]
        /\ lone[p] = 1
        /\ calls = 1
        /\ pool = <<Connection(STREAM_CAP - 1, TRUE)>>

\* C27: with every open_bi, lookup and connect await completing and the
\* mutex granted fairly, every new_stream call eventually returns, under any
\* interleaving of the callers; a caller waiting for the mutex gets past its
\* wait, and the mutex is free whenever no caller is inside a reuse pass (the
\* sweep and the append take and release it within their step).
C27_EveryCallReturns ==
    /\ [](mutex # 0 => \E p \in Procs : mutex = p /\ pc[p] \in {"iter", "open_bi"})
    /\ \A p \in FairProcs :
        /\ (pc[p] # "idle") ~> (pc[p] = "idle")
        /\ (pc[p] \in {"sweep", "lock", "push"}) ~>
               (pc[p] \notin {"sweep", "lock", "push"})

\* a caller that has dialed waits for the mutex to append its connection
\* while the other caller holds it in a reuse pass
C27_Witness ==
    \E p, q \in FairProcs :
        /\ pc[p] = "push"
        /\ mutex = q
        /\ pc[q] \in {"iter", "open_bi"}

(***************************************************************************)
(* Properties of the QUIC inbound accept pipeline                          *)
(***************************************************************************)
\* this step is a poll_next
PollStep == tick' # tick

\* the poll took a stream off some connection's bi_streams
TookStream == \E c \in Conns : bi'[c].ready = bi[c].ready - 1

\* at the end of the poll the producer has seen the incoming queue closed
\* and holds no pending handshake and no live connection
Exhausted ==
    /\ incoming_closed'
    /\ innerClosed /\ innerQ' = <<>>
    /\ connectings' = <<>>
    /\ new_conns' = <<>>

\* C3: a poll_next returns Ready(Some) exactly when it took a stream off a
\* connection, Ready(None) exactly when it took none and at its end the
\* incoming queue has been observed closed and connectings and new_conns are
\* both empty, and Pending in every other case.
C3_PollResult ==
    [][PollStep =>
        /\ polled'.res \in {"ReadySome", "ReadyNone", "Pending"}
        /\ polled'.res = "ReadySome" <=> TookStream
        /\ polled'.res = "ReadyNone" <=> (~TookStream /\ Exhausted)
        /\ polled'.res = "Pending" <=> (~TookStream /\ ~Exhausted)]_vars

\* the producer has returned Ready(None) after a connection that completed
\* its handshake was accepted and then retired
C3_Witness ==
    /\ polled.res = "ReadyNone"
    /\ \E c \in Conns : hs[c] = "ok" /\ bi[c].state # "open"

\* the elements of a Vec, and a Vec that holds no element twice
Range(s) == {s[i] : i \in DOMAIN s}

NoDup(s) == Cardinality(Range(s)) = Len(s)

\* the handshakes the second loop of this poll polls: those of connectings
\* and the one the poll has just taken from the endpoint
PolledHs ==
    Range(connectings)
    \cup (IF ~incoming_closed /\ innerQ # <<>> THEN {Head(innerQ)} ELSE {})

\* C23: after the handshake-advancing step of a poll connectings holds
\* exactly the polled handshakes that are still pending, each once (in
\* whatever order), new_conns is the old new_conns followed by exactly the
\* handshakes that succeeded, each once, and a failed handshake is in
\* neither list.
C23_HandshakesAdvance ==
    [][PollStep =>
        /\ NoDup(connectings')
        /\ Range(connectings') = {c \in PolledHs : hs[c] = "pending"}
        /\ Len(polled'.mid) >= Len(new_conns)
        /\ SubSeq(polled'.mid, 1, Len(new_conns)) = new_conns
        /\ NoDup(polled'.mid)
        /\ Range(polled'.mid) =
               Range(new_conns) \cup {c \in PolledHs : hs[c] = "ok"}
        /\ \A c \in PolledHs :
               hs[c] = "err" =>
                   (c \notin Range(connectings') /\ c \notin Range(polled'.mid))]_vars

\* a poll has taken the first of two handshakes out of connectings, the
\* second, still pending, having moved into its place
C23_Witness ==
    /\ arrived = 2
    /\ innerQ = <<>>
    /\ connectings = <<2>>
    /\ hs[2] = "pending"
    /\ hs[1] = "ok"
    /\ polled.mid = <<1>>

\* the positions of new_conns, as it is when the third loop starts, whose
\* stream queue has a stream ready
ReadyAt(m) == {i \in DOMAIN m : bi[m[i]].ready > 0}

\* the elements of m from position k + 1 on are in s, in the same order
KeepsTail(s, m, k) ==
    SelectSeq(s, LAMBDA c : c \in {m[j] : j \in (k + 1)..Len(m)})
        = SubSeq(m, k + 1, Len(m))

\* C24: a poll yields at most one stream, the stream of the first
\* connection in new_conns order whose queue has one ready; the connections
\* after it are not polled: they keep their ready streams and their place
\* in new_conns.
C24_FirstReadyStreamOnly ==
    [][PollStep =>
        IF ReadyAt(polled'.mid) = {}
        THEN polled'.conn = 0 /\ bi' = bi
        ELSE \E k \in ReadyAt(polled'.mid) :
                /\ \A j \in ReadyAt(polled'.mid) : k <= j
                /\ polled'.conn = polled'.mid[k]
                /\ bi' = [bi EXCEPT ![polled'.mid[k]].ready = @ - 1]
                /\ KeepsTail(new_conns', polled'.mid, k)]_vars

\* a poll has yielded the stream of the first connection; the second one,
\* which has a stream ready and whose connection is lost, is still in
\* new_conns
C24_Witness ==
    /\ polled.res = "ReadySome"
    /\ polled.mid = <<1, 2>>
    /\ polled.conn = 1
    /\ new_conns = <<1, 2>>
    /\ bi[2].ready > 0
    /\ bi[1].state = "err"
    /\ bi[1].ready = 0

\* the connections the third loop of this poll retires: those it polled (all
\* of them, or those before the first ready stream) whose queue returned an
\* error or None
Gone(m) ==
    {m[i] : i \in {j \in DOMAIN m :
                    /\ \A r \in ReadyAt(m) : j < r
                    /\ bi[m[j]].state \in {"err", "end"}}}

\* C25: the stream-accepting step of a poll removes from new_conns exactly
\* the connections whose queue returned an error or None in that poll, also
\* when a later connection yields a stream in the same poll; those that
\* returned Pending, yielded a stream or were not polled stay, in their
\* order.
C25_RetiresExactlyEnded ==
    [][PollStep =>
        new_conns' = SelectSeq(polled'.mid, LAMBDA c : c \notin Gone(polled'.mid))]_vars

\* a poll has retired the first connection, whose queue had ended, and
\* yielded the stream of the second one, which stays
C25_Witness ==
    /\ polled.res = "ReadySome"
    /\ polled.mid = <<1, 2>>
    /\ polled.conn = 2
    /\ new_conns = <<2>>

\* connection c is in new_conns and open, has a stream ready, and the last
\* poll did not yield a stream of c
Waiting(c) ==
    /\ c \in Range(new_conns)
    /\ bi[c].state = "open"
    /\ bi[c].ready > 0
    /\ polled.conn # c

\* C28: while the Incoming stream keeps being polled, a connection of
\* new_conns that stays open with a stream ready eventually has a stream
\* yielded, whatever arrives on the connections placed before it.
C28_NoStarvation ==
    \A c \in Conns : Waiting(c) ~> (polled.conn = c \/ bi[c].state # "open")

(***************************************************************************)
(* Properties of the TCP relay                                             *)
(***************************************************************************)
\* C4: when relay_tcp returns, whichever direction finished first and with
\* whatever result, shutdown has been called exactly once on a and exactly
\* once on b (never more at any time, a before b), also when the shutdown of
\* a failed.
C4_ShutdownBothOnce ==
    /\ \A s \in Streams : shut[s] <= 1
    /\ shut["b"] = 1 => shut["a"] = 1
    /\ rpc = "done" => (shut["a"] = 1 /\ shut["b"] = 1)
    /\ rpc = "select" => (shut["a"] = 0 /\ shut["b"] = 0)

\* the relay has returned after a direction ended in an error and the
\* shutdown of a failed: b was shut down all the same
C4_Witness ==
    /\ rpc = "done"
    /\ result = "err"
    /\ shutRes["a"] = "err"
    /\ shut["b"] = 1

\* the positions relay_tcp goes through when it returns normally
RelayPcs == {"select", "shutdown_a", "shutdown_b", "log", "done"}

\* the copy_tcp of direction d is still running
Copying(d) == cpc[d] \in {"read", "write", "flush"}

\* C12: relay_tcp stops copying as soon as either direction finishes, by
\* EOF or by an error: in that very step the other direction is dropped,
\* not awaited, no byte is read or written afterwards, and in both cases
\* relay_tcp goes on through the two shutdowns and the record to its normal
\* return; it has no way out that raises an error.
C12_FirstFinisherEndsRelay ==
    [][/\ rpc' \in RelayPcs
       /\ rpc = "select" => \A d \in Dirs : Copying(d)
       /\ (rpc = "select" /\ \E d \in Dirs : ~Copying(d)') =>
            /\ rpc' = "shutdown_a"
            /\ \E d \in Dirs :
                /\ cpc'[d] \in {"ok", "err"}
                /\ result' = cpc'[d]
                /\ \A e \in Dirs \ {d} : cpc'[e] = "dropped"
       /\ rpc # "select" => UNCHANGED <<src, buf, dst, got, cpc, result>>
       /\ rpc = "shutdown_a" => rpc' = "shutdown_b"
       /\ rpc = "shutdown_b" => rpc' = "log"
       /\ rpc = "log" => rpc' = "done"]_vars

\* relay_tcp has returned after one direction ended in an error while the
\* other still had bytes to deliver: it was cancelled, not run to its end
C12_Witness ==
    /\ rpc = "done"
    /\ result = "err"
    /\ \E d \in Dirs : cpc[d] = "dropped" /\ src[d] # <<>>

\* s is a prefix of t
IsPrefix(s, t) == Len(s) <= Len(t) /\ SubSeq(t, 1, Len(s)) = s

\* C13: in each direction, at every point, the bytes the destination writer
\* has accepted are a prefix of the bytes read from the source reader (no
\* byte dropped, duplicated or reordered), whatever the write does, a write
\* that accepts fewer bytes than it was offered included.
C13_AcceptedIsPrefixOfRead == \A d \in Dirs : IsPrefix(dst[d], got[d])

\* C14: a relay_tcp that has returned has logged exactly one "session ends"
\* record, no record is logged before the return or twice, and the record
\* comes only after shutdown was called on both streams, whether the session
\* ended by EOF or by an error.
C14_OneRecordAfterShutdowns ==
    /\ ends <= 1
    /\ rpc = "done" <=> ends = 1
    /\ ends = 1 => (shut["a"] = 1 /\ shut["b"] = 1)

\* the session ended by an error, both shutdowns failed, and the record was
\* logged once
C14_Witness ==
    /\ rpc = "done"
    /\ ends = 1
    /\ result = "err"
    /\ shutRes["a"] = "err" /\ shutRes["b"] = "err"

\* the data of direction d stays as it is in this step
Still(d) ==
    /\ src'[d] = src[d]
    /\ got'[d] = got[d]
    /\ buf'[d] = buf[d]
    /\ dst'[d] = dst[d]

\* C22: within one direction the operations come in the repeating order
\* read, write, flush: a read that returned bytes is followed by the write,
\* the write by the flush and only the flush by the next read; a read of 0
\* bytes ends the direction without a write; an error of the read, the write
\* or the flush ends the direction at once, nothing more being read or
\* written.
C22_ReadWriteFlushOrder ==
    [][\A d \in Dirs :
        IF cpc'[d] = cpc[d] THEN Still(d)
        ELSE \/ /\ cpc[d] = "read" /\ cpc'[d] = "write"
                /\ Len(got'[d]) > Len(got[d])
                /\ dst'[d] = dst[d]
             \/ /\ cpc[d] = "read" /\ cpc'[d] = "ok"
                /\ src[d] = <<>>
                /\ Still(d)
             \/ /\ cpc[d] = "write" /\ cpc'[d] = "flush"
                /\ src'[d] = src[d] /\ got'[d] = got[d]
             \/ /\ cpc[d] = "flush" /\ cpc'[d] = "read"
                /\ Still(d)
             \/ /\ Copying(d) /\ cpc'[d] = "err"
                /\ Still(d)
             \/ /\ Copying(d) /\ cpc'[d] = "dropped"
                /\ Still(d)]_vars

\* a direction has gone twice through read, write and flush (two reads of
\* one byte, the first write accepting none) and then ended on a read of 0
\* bytes
C22_Witness ==
    \E d \in Dirs :
        /\ cpc[d] = "ok"
        /\ got[d] = <<1, 2>>
        /\ dst[d] = <<2>>

TlsName ==
    IF built["tls_out"].name # "" THEN built["tls_out"].name ELSE handled.host

\* C16: the TLS outbound handle fails with kind InvalidInput when it is
\* called without an upstream stream, fails with InvalidInput when it is
\* called with a stream and a name that is no valid DNS name, and a failed
\* handshake fails with kind Other and the message "tls error".
C16_TlsOutErrors ==
    handled.h = "tls_out" =>
        /\ handled.stream = "none" =>
            (handled.status = "err" /\ handled.kind = "InvalidInput")
        /\ (handled.stream = "some" /\ TlsName \notin ValidNames) =>
            (handled.status = "err" /\ handled.kind = "InvalidInput")
        /\ (handled.stream = "some" /\ TlsName \in ValidNames
                /\ handled.status = "err") =>
            (handled.kind = "Other" /\ handled.msg = "tls error")

\* the key file parses as PEM and holds neither a PKCS#8 nor an RSA key
NoKey(f) ==
    f.state = "pem" /\ \A i \in DOMAIN f.items : f.items[i] \notin {"pkcs8", "rsa"}

\* C17: when the key file of the TLS inbound handler holds neither a PKCS#8
\* nor a PKCS#1/RSA key (the certificate file being loadable), construction
\* returns the error InvalidInput("malformed key"): no panic, no handler.
C17_NoKeyIsInvalidInput ==
    (/\ built["tls_in"].status # "unbuilt"
     /\ files.cert.state = "pem"
     /\ NoKey(files.key)) =>
        /\ built["tls_in"].status = "err"
        /\ built["tls_in"].kind = "InvalidInput"
        /\ built["tls_in"].msg = "malformed key"

\* the positions of the sections of kind fmt in key file f
KeysOf(f, fmt) == {i \in DOMAIN f.items : f.items[i] = fmt}

\* k is the first (lowest) position in S
IsFirst(k, S) == k \in S /\ \A j \in S : k <= j

\* C18: for every key file, the key a constructed TLS inbound handler has
\* installed is the first PKCS#8 key of the file whenever the file holds a
\* PKCS#8 key, however many RSA keys it holds and wherever they stand; it is
\* an RSA key only when the file holds no PKCS#8 key, and then the first one.
C18_FirstPkcs8ElseFirstRsa ==
    built["tls_in"].status = "ok" =>
        IF KeysOf(files.key, "pkcs8") # {}
        THEN IsFirst(built["tls_in"].key, KeysOf(files.key, "pkcs8"))
        ELSE IsFirst(built["tls_in"].key, KeysOf(files.key, "rsa"))

\* the key file holds an RSA key before a PKCS#8 key and the handler has
\* installed the PKCS#8 key
C18_Witness ==
    /\ built["tls_in"].status = "ok"
    /\ files.key.items = <<"rsa", "pkcs8">>
    /\ built["tls_in"].key = 2

\* a file the construction of h is given is missing or malformed
BadFiles(h) ==
    \/ files.cert.state \in {"missing", "malformed"}
    \/ h \in {"tls_in", "quic_in"} /\ files.key.state \in {"missing", "malformed"}

\* C19: for every handler constructed with certificate or key file paths
\* (TLS inbound and outbound, QUIC inbound and outbound) a missing or
\* malformed file makes the construction end with an error, and no handle
\* call reads a certificate or key file.
C19_FilesCheckedAtConstruction ==
    /\ \A h \in FileHandlers :
        (built[h].status # "unbuilt" /\ built[h].withCert /\ BadFiles(h)) =>
            built[h].status = "err"
    /\ handled.reads = {}

====
